---- MODULE Spec2Model ----
(***************************************************************************)
(* Model of the instruction-execution engine of the CPU simulator          *)
(* (src/lib/cpu-logic.ts) and of the reducer with which the simulator      *)
(* component applies the returned steps (src/components/cpu-simulator.tsx).*)
(*                                                                         *)
(* JavaScript values are tagged records, so that a number, NaN and         *)
(* undefined are distinct values that can be compared.  Negative zero is   *)
(* identified with zero: the two are equal under === and print the same.   *)
(* Strings that the code converts (toString / Number.parseInt) are         *)
(* sequences of one-character strings; the other strings are TLA+ strings. *)
(***************************************************************************)
EXTENDS Integers, Sequences, FiniteSets, TLC

(***************************************************************************)
(* Bound of the engine specification's inputs: AX and CX range over        *)
(* -MaxVal..MaxVal.                                                        *)
(***************************************************************************)
MaxVal == 2

(***************************************************************************)
(* JavaScript values and operators.                                        *)
(***************************************************************************)
Num(n) == [t |-> "number", v |-> n]
NaN == [t |-> "NaN", v |-> 0]
undefined == [t |-> "undefined", v |-> 0]

IsNum(x) == x.t = "number"

Abs(n) == IF n < 0 THEN 0 - n ELSE n

\* a + b on numbers; undefined converts to NaN and NaN is absorbing.
JsAdd(a, b) == IF IsNum(a) /\ IsNum(b) THEN Num(a.v + b.v) ELSE NaN

JsSub(a, b) == IF IsNum(a) /\ IsNum(b) THEN Num(a.v - b.v) ELSE NaN

JsMul(a, b) == IF IsNum(a) /\ IsNum(b) THEN Num(a.v * b.v) ELSE NaN

\* a === b: NaN equals nothing, undefined equals only undefined.
StrictEq(a, b) == /\ a.t = b.t
                  /\ a.t # "NaN"
                  /\ (IsNum(a) => a.v = b.v)

\* Math.floor(a / b).  The only call divides by CX on the branch where
\* CX === 0 is false, so a numeric divisor is never 0 there.
FloorDiv(a, b) ==
    IF IsNum(a) /\ IsNum(b) /\ b.v # 0
    THEN LET q == Abs(a.v) \div Abs(b.v)
             exact == Abs(a.v) % Abs(b.v) = 0
             sameSign == (a.v >= 0) = (b.v > 0)
         IN  Num(IF sameSign \/ a.v = 0 THEN q
                 ELSE IF exact THEN 0 - q ELSE 0 - q - 1)
    ELSE NaN

\* a % b: the remainder of the truncated division, with the sign of a.
JsRem(a, b) ==
    IF IsNum(a) /\ IsNum(b) /\ b.v # 0
    THEN LET r == Abs(a.v) % Abs(b.v)
         IN  Num(IF a.v < 0 THEN 0 - r ELSE r)
    ELSE NaN

\* ToInt32 of the bitwise operators.  Every integer of the model lies in
\* the 32-bit range, where the conversion keeps the value; NaN and
\* undefined convert to 0.
ToInt32(a) == IF IsNum(a) THEN a.v ELSE 0

FloorHalf(n) == IF n >= 0 THEN n \div 2 ELSE 0 - ((1 - n) \div 2)

LowBit(n) == Abs(n) % 2

RECURSIVE AndBits(_, _)
AndBits(a, b) ==
    IF a = 0 \/ b = 0 THEN 0
    ELSE IF a = 0 - 1 THEN b
    ELSE IF b = 0 - 1 THEN a
    ELSE LowBit(a) * LowBit(b) + 2 * AndBits(FloorHalf(a), FloorHalf(b))

RECURSIVE OrBits(_, _)
OrBits(a, b) ==
    IF a = 0 THEN b
    ELSE IF b = 0 THEN a
    ELSE IF a = 0 - 1 \/ b = 0 - 1 THEN 0 - 1
    ELSE (IF LowBit(a) + LowBit(b) > 0 THEN 1 ELSE 0)
         + 2 * OrBits(FloorHalf(a), FloorHalf(b))

\* a & b
JsAnd(a, b) == Num(AndBits(ToInt32(a), ToInt32(b)))

\* a | b
JsOr(a, b) == Num(OrBits(ToInt32(a), ToInt32(b)))

\* ~a
JsNot(a) == Num(0 - ToInt32(a) - 1)

\* a || 0: a when it is truthy (a number other than 0), otherwise 0.
OrZero(a) == IF IsNum(a) /\ a.v # 0 THEN a ELSE Num(0)

(***************************************************************************)
(* Number.prototype.toString and Number.parseInt, on character sequences.  *)
(***************************************************************************)
DigitChars == <<"0", "1", "2", "3", "4", "5", "6", "7", "8", "9">>

DigitVal(c) == (CHOOSE i \in 1..10 : DigitChars[i] = c) - 1

IsDigit(c) == \E i \in 1..10 : DigitChars[i] = c

RECURSIVE Digits(_)
Digits(n) == IF n < 10 THEN <<DigitChars[n + 1]>>
             ELSE Digits(n \div 10) \o <<DigitChars[(n % 10) + 1]>>

toString(a) ==
    IF a.t = "NaN" THEN <<"N", "a", "N">>
    ELSE IF a.t = "undefined"
         THEN <<"u", "n", "d", "e", "f", "i", "n", "e", "d">>
    ELSE IF a.v < 0 THEN <<"-">> \o Digits(0 - a.v)
    ELSE Digits(a.v)

RECURSIVE ParseDigits(_, _)
ParseDigits(s, acc) ==
    IF s = <<>> \/ ~IsDigit(Head(s)) THEN acc
    ELSE ParseDigits(Tail(s), 10 * acc + DigitVal(Head(s)))

parseInt(s) ==
    LET signed == s # <<>> /\ Head(s) \in {"-", "+"}
        body == IF signed THEN Tail(s) ELSE s
    IN  IF body = <<>> \/ ~IsDigit(Head(body)) THEN NaN
        ELSE IF signed /\ Head(s) = "-" THEN Num(0 - ParseDigits(body, 0))
        ELSE Num(ParseDigits(body, 0))

(***************************************************************************)
(* Registers and memory.  A memory is a JavaScript array: its indexed      *)
(* cells (a hole reads as undefined and is kept as undefined) and the      *)
(* properties set on it under keys that are not array indices.             *)
(***************************************************************************)
RegisterNames == {"AX", "BX", "CX", "DX", "PC", "SP", "FLAGS"}

NoChanges == [k \in {} |-> Num(0)]

\* registers.X
RegGet(registers, name) ==
    IF name \in DOMAIN registers THEN registers[name] ELSE undefined

\* memory[a]
MemGet(memory, a) ==
    IF IsNum(a) /\ a.v >= 0 /\ a.v < Len(memory.cells)
    THEN memory.cells[a.v + 1]
    ELSE IF toString(a) \in DOMAIN memory.props
         THEN memory.props[toString(a)]
         ELSE undefined

\* Array(n).fill(0)
ZeroMemory(n) == [cells |-> [i \in 1..n |-> Num(0)], props |-> NoChanges]

(***************************************************************************)
(* Execution steps.  present holds the optional keys the step object has:  *)
(* a step built without registerChanges differs from one built with an     *)
(* empty registerChanges object.                                           *)
(***************************************************************************)
StepPlain(phase, description) ==
    [phase |-> phase, description |-> description, present |-> {},
     registerChanges |-> NoChanges, memoryChanges |-> NoChanges]

StepRegs(phase, description, rc) ==
    [phase |-> phase, description |-> description,
     present |-> {"registerChanges"},
     registerChanges |-> rc, memoryChanges |-> NoChanges]

StepMem(phase, description, mc) ==
    [phase |-> phase, description |-> description,
     present |-> {"memoryChanges"},
     registerChanges |-> NoChanges, memoryChanges |-> mc]

StepRegsMem(phase, description, rc, mc) ==
    [phase |-> phase, description |-> description,
     present |-> {"registerChanges", "memoryChanges"},
     registerChanges |-> rc, memoryChanges |-> mc]

(***************************************************************************)
(* executeInstruction: the fetch and decode steps.                         *)
(***************************************************************************)
FetchStepNoIncrement(registers) ==
    StepRegs("fetch", "Fetching instruction from memory",
             "PC" :> RegGet(registers, "PC"))

FetchStep(registers) ==
    StepRegs("fetch", "Fetching instruction from memory",
             "PC" :> JsAdd(RegGet(registers, "PC"), Num(1)))

DecodeStep(mnemonic) ==
    StepPlain("decode", "Decoding instruction: " \o mnemonic)

(***************************************************************************)
(* executeInstruction: the execute step of each case of the switch.        *)
(***************************************************************************)
ZeroFlag(result) == IF StrictEq(result, Num(0)) THEN Num(1) ELSE Num(0)

ExecMovAx42 ==
    StepRegs("execute", "Moving value 42 to register AX", "AX" :> Num(42))

ExecMovBxAx(registers) ==
    StepRegs("execute", "Copying value from AX to BX",
             "BX" :> RegGet(registers, "AX"))

ExecAdd(registers) ==
    LET sum == JsAdd(RegGet(registers, "AX"), RegGet(registers, "BX"))
    IN  StepRegs("execute", "Adding BX to AX",
                 ("AX" :> sum) @@ ("FLAGS" :> ZeroFlag(sum)))

ExecSub(registers) ==
    LET diff == JsSub(RegGet(registers, "CX"), RegGet(registers, "DX"))
    IN  StepRegs("execute", "Subtracting DX from CX",
                 ("CX" :> diff) @@ ("FLAGS" :> ZeroFlag(diff)))

ExecMul(registers) ==
    LET prod == JsMul(RegGet(registers, "AX"), RegGet(registers, "BX"))
    IN  StepRegs("execute", "Multiplying AX by BX",
                 ("AX" :> prod) @@ ("FLAGS" :> ZeroFlag(prod)))

ExecDivNoZeroCheck(registers) ==
    LET AX == RegGet(registers, "AX")
        CX == RegGet(registers, "CX")
    IN  StepRegs("execute", "Dividing AX by CX",
                 ("AX" :> FloorDiv(AX, CX)) @@ ("DX" :> JsRem(AX, CX))
                 @@ ("FLAGS" :> ZeroFlag(FloorDiv(AX, CX))))

ExecDiv(registers) ==
    LET AX == RegGet(registers, "AX")
        CX == RegGet(registers, "CX")
    IN  IF StrictEq(CX, Num(0))
        THEN StepRegs("execute", "Error: Division by zero",
                      "FLAGS" :> Num(1))
        ELSE StepRegs("execute", "Dividing AX by CX",
                      ("AX" :> FloorDiv(AX, CX)) @@ ("DX" :> JsRem(AX, CX))
                      @@ ("FLAGS" :> ZeroFlag(FloorDiv(AX, CX))))

ExecAnd(registers) ==
    LET result == JsAnd(RegGet(registers, "AX"), Num(255))
    IN  StepRegs("execute", "Performing bitwise AND on AX with 0xFF",
                 ("AX" :> result) @@ ("FLAGS" :> ZeroFlag(result)))

ExecOr(registers) ==
    LET result == JsOr(RegGet(registers, "BX"), RegGet(registers, "CX"))
    IN  StepRegs("execute", "Performing bitwise OR on BX with CX",
                 ("BX" :> result) @@ ("FLAGS" :> ZeroFlag(result)))

ExecXor ==
    StepRegs("execute", "Performing XOR on DX with itself",
             ("DX" :> Num(0)) @@ ("FLAGS" :> Num(1)))

ExecNotUnmasked(registers) ==
    LET result == JsNot(RegGet(registers, "AX"))
    IN  StepRegs("execute", "Performing bitwise NOT on AX",
                 ("AX" :> result) @@ ("FLAGS" :> ZeroFlag(result)))

ExecNot(registers) ==
    LET result == JsAnd(JsNot(RegGet(registers, "AX")), Num(65535))
    IN  StepRegs("execute", "Performing bitwise NOT on AX",
                 ("AX" :> result) @@ ("FLAGS" :> ZeroFlag(result)))

ExecJmp ==
    StepRegs("execute", "Jumping to memory address 0x100", "PC" :> Num(256))

ExecJe(registers) ==
    IF StrictEq(RegGet(registers, "FLAGS"), Num(1))
    THEN StepRegs("execute", "Equal flag is set, jumping to address 0x200",
                  "PC" :> Num(512))
    ELSE StepRegs("execute", "Equal flag is not set, no jump", NoChanges)

ExecJneUnlessSet(registers) ==
    IF ~StrictEq(RegGet(registers, "FLAGS"), Num(1))
    THEN StepRegs("execute",
                  "Equal flag is not set, jumping to address 0x300",
                  "PC" :> Num(768))
    ELSE StepRegs("execute", "Equal flag is set, no jump", NoChanges)

ExecJne(registers) ==
    IF StrictEq(RegGet(registers, "FLAGS"), Num(0))
    THEN StepRegs("execute",
                  "Equal flag is not set, jumping to address 0x300",
                  "PC" :> Num(768))
    ELSE StepRegs("execute", "Equal flag is set, no jump", NoChanges)

ExecPushOldSP(registers) ==
    LET newSP == JsSub(RegGet(registers, "SP"), Num(2))
    IN  StepRegsMem("execute", "Pushing AX onto the stack",
                    "SP" :> newSP,
                    toString(RegGet(registers, "SP"))
                        :> RegGet(registers, "AX"))

ExecPush(registers) ==
    LET newSP == JsSub(RegGet(registers, "SP"), Num(2))
    IN  StepRegsMem("execute", "Pushing AX onto the stack",
                    "SP" :> newSP,
                    toString(newSP) :> RegGet(registers, "AX"))

ExecPop(registers, memory) ==
    StepRegs("execute", "Popping value from stack into BX",
             ("BX" :> MemGet(memory, RegGet(registers, "SP")))
             @@ ("SP" :> JsAdd(RegGet(registers, "SP"), Num(2))))

ExecXchg(registers) ==
    StepRegs("execute", "Exchanging values in AX and BX",
             ("AX" :> RegGet(registers, "BX"))
             @@ ("BX" :> RegGet(registers, "AX")))

ExecLoad(memory) ==
    StepRegs("execute", "Loading value from memory address 100 into AX",
             "AX" :> OrZero(MemGet(memory, Num(100))))

ExecStore(registers) ==
    StepMem("execute", "Storing value of BX into memory address 200",
            <<"2", "0", "0">> :> RegGet(registers, "BX"))

ExecCmpInverted(registers) ==
    StepRegs("execute", "Comparing AX with BX",
             "FLAGS" :> (IF StrictEq(RegGet(registers, "AX"),
                                     RegGet(registers, "BX"))
                         THEN Num(0) ELSE Num(1)))

ExecCmp(registers) ==
    StepRegs("execute", "Comparing AX with BX",
             "FLAGS" :> (IF StrictEq(RegGet(registers, "AX"),
                                     RegGet(registers, "BX"))
                         THEN Num(1) ELSE Num(0)))

ExecIncFlagFromOld(registers) ==
    LET result == JsAdd(RegGet(registers, "CX"), Num(1))
    IN  StepRegs("execute", "Incrementing CX by 1",
                 ("CX" :> result)
                 @@ ("FLAGS" :> ZeroFlag(RegGet(registers, "CX"))))

ExecInc(registers) ==
    LET result == JsAdd(RegGet(registers, "CX"), Num(1))
    IN  StepRegs("execute", "Incrementing CX by 1",
                 ("CX" :> result) @@ ("FLAGS" :> ZeroFlag(result)))

ExecDecMasked(registers) ==
    LET result == JsAnd(JsSub(RegGet(registers, "BX"), Num(1)), Num(65535))
    IN  StepRegs("execute", "Decrementing BX by 1",
                 ("BX" :> result) @@ ("FLAGS" :> ZeroFlag(result)))

ExecDecFlagIsResult(registers) ==
    LET result == JsSub(RegGet(registers, "BX"), Num(1))
    IN  StepRegs("execute", "Decrementing BX by 1",
                 ("BX" :> result) @@ ("FLAGS" :> result))

ExecDec(registers) ==
    LET result == JsSub(RegGet(registers, "BX"), Num(1))
    IN  StepRegs("execute", "Decrementing BX by 1",
                 ("BX" :> result) @@ ("FLAGS" :> ZeroFlag(result)))

ExecIn ==
    StepRegs("execute", "Reading input from port 60h into AX",
             "AX" :> Num(66))

ExecOutClearsAX ==
    StepRegs("execute", "Sending value in AL to output port 61h",
             "AX" :> Num(0))

ExecOut == StepPlain("execute", "Sending value in AL to output port 61h")

ExecCallReturnToNext(registers) ==
    LET newSP == JsSub(RegGet(registers, "SP"), Num(2))
    IN  StepRegsMem("execute", "Calling subroutine at address 0x400",
                    ("SP" :> newSP) @@ ("PC" :> Num(1024)),
                    toString(newSP)
                        :> JsAdd(RegGet(registers, "PC"), Num(1)))

ExecCall(registers) ==
    LET newSP == JsSub(RegGet(registers, "SP"), Num(2))
    IN  StepRegsMem("execute", "Calling subroutine at address 0x400",
                    ("SP" :> newSP) @@ ("PC" :> Num(1024)),
                    toString(newSP) :> RegGet(registers, "PC"))

ExecRetNextAddress(registers, memory) ==
    StepRegs("execute", "Returning from subroutine",
             ("PC" :> JsAdd(MemGet(memory, RegGet(registers, "SP")), Num(1)))
             @@ ("SP" :> JsAdd(RegGet(registers, "SP"), Num(2))))

ExecRet(registers, memory) ==
    StepRegs("execute", "Returning from subroutine",
             ("PC" :> MemGet(memory, RegGet(registers, "SP")))
             @@ ("SP" :> JsAdd(RegGet(registers, "SP"), Num(2))))

ExecDefault == StepPlain("execute", "Executing instruction")

(***************************************************************************)
(* executeInstruction: the switch, the memory-access list and the whole    *)
(* function.                                                               *)
(***************************************************************************)
\* switch (instruction.mnemonic): the key compared with the case labels.
DispatchKeyNormalised(mnemonic) ==
    IF mnemonic \in {"mov ax, 42", "MOV AX,42"} THEN "MOV AX, 42"
    ELSE mnemonic

DispatchKey(mnemonic) == mnemonic

ExecutePhase(mnemonic, registers, memory) ==
  LET key == DispatchKey(mnemonic) IN
    CASE key = "MOV AX, 42"    -> ExecMovAx42
      [] key = "MOV BX, AX"    -> ExecMovBxAx(registers)
      [] key = "ADD AX, BX"    -> ExecAdd(registers)
      [] key = "SUB CX, DX"    -> ExecSub(registers)
      [] key = "MUL BX"        -> ExecMul(registers)
      [] key = "DIV CX"        -> ExecDiv(registers)
      [] key = "AND AX, 0xFF"  -> ExecAnd(registers)
      [] key = "OR BX, CX"     -> ExecOr(registers)
      [] key = "XOR DX, DX"    -> ExecXor
      [] key = "NOT AX"        -> ExecNot(registers)
      [] key = "JMP 0x100"     -> ExecJmp
      [] key = "JE 0x200"      -> ExecJe(registers)
      [] key = "JNE 0x300"     -> ExecJne(registers)
      [] key = "PUSH AX"       -> ExecPush(registers)
      [] key = "POP BX"        -> ExecPop(registers, memory)
      [] key = "XCHG AX, BX"   -> ExecXchg(registers)
      [] key = "MOV AX, [100]" -> ExecLoad(memory)
      [] key = "MOV [200], BX" -> ExecStore(registers)
      [] key = "CMP AX, BX"    -> ExecCmp(registers)
      [] key = "INC CX"        -> ExecInc(registers)
      [] key = "DEC BX"        -> ExecDec(registers)
      [] key = "IN AX, 60h"    -> ExecIn
      [] key = "OUT 61h, AL"   -> ExecOut
      [] key = "CALL 0x400"    -> ExecCall(registers)
      [] key = "RET"           -> ExecRet(registers, memory)
      [] OTHER                      -> ExecDefault

MemoryAccessWithoutJmp ==
    {"PUSH AX", "POP BX", "MOV AX, [100]", "MOV [200], BX", "CALL 0x400",
     "RET"}

MemoryAccessMnemonics ==
    {"PUSH AX", "POP BX", "JMP 0x100", "MOV AX, [100]", "MOV [200], BX",
     "CALL 0x400", "RET"}

MemoryStep == StepPlain("memory", "Accessing memory")

WritebackStep == StepPlain("writeback", "Writing results back to registers")

executeInstruction(mnemonic, registers, memory) ==
    <<FetchStep(registers), DecodeStep(mnemonic),
      ExecutePhase(mnemonic, registers, memory)>>
    \o (IF mnemonic \in MemoryAccessMnemonics THEN <<MemoryStep>> ELSE <<>>)
    \o <<WritebackStep>>

\* Whether the call raises a fault.  The function has no throw statement and
\* validates nothing: reading a key that the registers object lacks gives
\* undefined, and arithmetic on undefined gives NaN.
Throws(mnemonic, registers, memory) == FALSE

\* The caller's registers and memory objects as executeInstruction leaves
\* them: the function reads them and assigns to neither.
ArgumentsAfterInPlaceFetch(mnemonic, registers, memory) ==
    [registers |-> [registers EXCEPT
                        !["PC"] = JsAdd(RegGet(registers, "PC"), Num(1))],
     memory |-> memory]

ArgumentsAfter(mnemonic, registers, memory) ==
    [registers |-> registers, memory |-> memory]

(***************************************************************************)
(* The reducer of the simulator component: one step applied to a copy of   *)
(* the registers and of the memory.                                        *)
(***************************************************************************)
\* newMemory[index] = value
ArraySet(memory, index, value) ==
    IF IsNum(index) /\ index.v >= 0
    THEN IF index.v < Len(memory.cells)
         THEN [memory EXCEPT !.cells[index.v + 1] = value]
         ELSE [memory EXCEPT !.cells =
                  memory.cells
                  \o [i \in 1..(index.v - Len(memory.cells)) |-> undefined]
                  \o <<value>>]
    ELSE [memory EXCEPT !.props = (toString(index) :> value) @@ memory.props]

\* [...memory]: the indexed cells only.
SpreadArray(memory) == [cells |-> memory.cells, props |-> NoChanges]

\* Object.entries(changes).forEach(([addr, value]) => ...): no step of the
\* engine carries more than one memory change, so the order is immaterial.
RECURSIVE ApplyMemoryChanges(_, _)
ApplyMemoryChanges(memory, changes) ==
    IF DOMAIN changes = {} THEN memory
    ELSE LET addr == CHOOSE k \in DOMAIN changes : TRUE
             rest == [k \in DOMAIN changes \ {addr} |-> changes[k]]
         IN  ApplyMemoryChanges(
                 ArraySet(memory, parseInt(addr), changes[addr]), rest)

ApplyRegisterChangesKeepExisting(registers, changes) ==
    [r \in DOMAIN registers \cup DOMAIN changes |->
        IF r \in DOMAIN registers THEN registers[r] ELSE changes[r]]

ApplyRegisterChanges(registers, changes) ==
    [r \in DOMAIN registers \cup DOMAIN changes |->
        IF r \in DOMAIN changes THEN changes[r] ELSE registers[r]]

ApplyStep(registers, memory, step) ==
    [registers |-> ApplyRegisterChanges(registers, step.registerChanges),
     memory |-> ApplyMemoryChanges(SpreadArray(memory), step.memoryChanges)]

\* The steps of a list applied one after the other, as the timer callback
\* applies them.
RECURSIVE RunSteps(_, _, _)
RunSteps(stepList, regs, mem) ==
    IF stepList = <<>> THEN [registers |-> regs, memory |-> mem]
    ELSE LET next == ApplyStep(regs, mem, Head(stepList))
         IN  RunSteps(Tail(stepList), next.registers, next.memory)

\* An instruction dropped on a state and played to its end by the timer.
RunInstruction(mnemonic, regs, mem) ==
    RunSteps(executeInstruction(mnemonic, regs, mem), regs, mem)

(***************************************************************************)
(* Engine specification: one call of executeInstruction on inputs drawn    *)
(* from bounded sets, whose steps a caller then applies in array order to  *)
(* its own copy of the registers and of the memory.                        *)
(***************************************************************************)
VARIABLES instruction, registers, memory, steps, newRegisters, newMemory,
          applied, fault

engineVars == <<instruction, registers, memory, steps, newRegisters,
                newMemory, applied, fault>>

\* The state of the simulator component: cpuState and isPaused are its React
\* state; drops counts the instructions dropped so far and appliedLog lists
\* the indices of the steps applied since the last drop.
VARIABLES cpuState, isPaused, drops, appliedLog

simulatorVars == <<cpuState, isPaused, drops, appliedLog>>

vars == <<instruction, registers, memory, steps, newRegisters, newMemory,
          applied, fault, cpuState, isPaused, drops, appliedLog>>

MemorySize == 64

CatalogueMnemonics ==
    {"MOV AX, 42", "MOV BX, AX", "ADD AX, BX", "SUB CX, DX", "MUL BX",
     "DIV CX", "AND AX, 0xFF", "OR BX, CX", "XOR DX, DX", "NOT AX",
     "JMP 0x100", "JE 0x200", "JNE 0x300", "PUSH AX", "POP BX",
     "XCHG AX, BX", "MOV AX, [100]", "MOV [200], BX", "CMP AX, BX",
     "INC CX", "DEC BX", "IN AX, 60h", "OUT 61h, AL", "CALL 0x400", "RET"}

UnknownMnemonics == {"NOP", "mov ax, 42", "MOV AX,42"}

Mnemonics == CatalogueMnemonics \cup UnknownMnemonics

Regs(ax, bx, cx, dx, pc, sp, flags) ==
    [AX |-> Num(ax), BX |-> Num(bx), CX |-> Num(cx), DX |-> Num(dx),
     PC |-> Num(pc), SP |-> Num(sp), FLAGS |-> Num(flags)]

\* useState<CPUState>({...})
InitialCPUState ==
    [registers |-> Regs(0, 0, 0, 0, 0, 0, 0),
     memory |-> ZeroMemory(MemorySize),
     currentInstruction |-> "null",
     executionPhase |-> "idle",
     executionSteps |-> <<>>,
     currentStep |-> 0 - 1,
     isAnimating |-> FALSE]

\* A memory of twice the initial size whose cells hold small non-zero data.
DataMemory ==
    [cells |-> [i \in 1..(2 * MemorySize) |-> Num(((i - 1) % 7) + 1)],
     props |-> NoChanges]

\* The values the other registers are drawn from: SP below, inside and past
\* the end of the initial memory, FLAGS also with a value that is not a bit.
BXValues == {0, 1}

DXValues == {0, 1}

\* PC = 0 is covered by ScenarioRegisters.
PCValues == {1}

SPValues == {0, 10, MemorySize}

FLAGSValues == {0, 1, 2}

InputRegisters ==
    {Regs(ax, bx, cx, dx, pc, sp, flags) :
        ax \in (0 - MaxVal)..MaxVal, bx \in BXValues,
        cx \in (0 - MaxVal)..MaxVal, dx \in DXValues, pc \in PCValues,
        sp \in SPValues, flags \in FLAGSValues}

\* The inputs of the scenarios of the specification's section 8, a
\* register state that has a key beyond the required ones, and one whose
\* registers hold the largest 16-bit value.
ScenarioRegisters ==
    {Regs(10, 0, 0, 0, 0, 0, 0), Regs(10, 0, 3, 0, 0, 0, 0),
     Regs(99, 0, 0, 0, 0, 10, 0),
     Regs(1, 1, 1, 1, 0, 10, 0) @@ ("SI" :> Num(7)),
     Regs(65535, 2, 65535, 0, 0, 10, 0)}

EngineInit ==
    /\ \/ /\ registers \in InputRegisters
          /\ memory \in {ZeroMemory(MemorySize), DataMemory}
       \/ /\ registers \in ScenarioRegisters
          /\ memory = ZeroMemory(MemorySize)
    /\ instruction = ""
    /\ steps = <<>>
    /\ newRegisters = registers
    /\ newMemory = memory
    /\ applied = 0
    /\ fault = FALSE
    /\ cpuState = InitialCPUState
    /\ isPaused = FALSE
    /\ drops = 0
    /\ appliedLog = <<>>

\* steps = executeInstruction(instruction, registers, memory)
Execute(mnemonic) ==
    /\ instruction = ""
    /\ instruction' = mnemonic
    /\ fault' = Throws(mnemonic, registers, memory)
    /\ steps' = IF fault' THEN <<>>
                ELSE executeInstruction(mnemonic, registers, memory)
    /\ registers' = ArgumentsAfter(mnemonic, registers, memory).registers
    /\ memory' = ArgumentsAfter(mnemonic, registers, memory).memory
    /\ UNCHANGED <<newRegisters, newMemory, applied>>
    /\ UNCHANGED simulatorVars

\* The caller applies the next step of the array.
Apply ==
    /\ applied < Len(steps)
    /\ LET next == ApplyStep(newRegisters, newMemory, steps[applied + 1])
       IN  /\ newRegisters' = next.registers
           /\ newMemory' = next.memory
    /\ applied' = applied + 1
    /\ UNCHANGED <<instruction, registers, memory, steps, fault>>
    /\ UNCHANGED simulatorVars

EngineNext == (\E mnemonic \in Mnemonics : Execute(mnemonic)) \/ Apply

EngineSpec == EngineInit /\ [][EngineNext]_vars

(***************************************************************************)
(* The engine called with a register state that lacks one required key.    *)
(***************************************************************************)
Without(regs, name) == [r \in DOMAIN regs \ {name} |-> regs[r]]

MalformedRegisters ==
    {Without(regs, name) :
        regs \in {Regs(10, 0, 3, 0, 0, 0, 0), Regs(99, 0, 0, 0, 0, 10, 0),
                  Regs(1, 1, 1, 1, 1, 10, 1)},
        name \in RegisterNames}

MalformedInit ==
    /\ registers \in MalformedRegisters
    /\ memory = ZeroMemory(MemorySize)
    /\ instruction = ""
    /\ steps = <<>>
    /\ newRegisters = registers
    /\ newMemory = memory
    /\ applied = 0
    /\ fault = FALSE
    /\ cpuState = InitialCPUState
    /\ isPaused = FALSE
    /\ drops = 0
    /\ appliedLog = <<>>

MalformedSpec == MalformedInit /\ [][EngineNext]_vars

(***************************************************************************)
(* Simulator specification: the CPUSimulator component.  An action is an   *)
(* event handler or the timer callback of the effect, guarded by the       *)
(* condition under which the rendered page offers it.  The playback speed  *)
(* only sets the delay of the timer and is left out.                       *)
(***************************************************************************)
MaxDrops == 2

\* The instructions of the panel that can be dragged to the drop target.
DropMnemonics == CatalogueMnemonics

\* The loop body of stepBackward: the changes of a step written to the
\* arrays being rebuilt, without a copy in between.
ApplyStepInPlace(regs, mem, step) ==
    [registers |-> ApplyRegisterChanges(regs, step.registerChanges),
     memory |-> ApplyMemoryChanges(mem, step.memoryChanges)]

\* for (let i = 0; i <= targetStep; i++) { ... } of stepBackward, from i on.
RECURSIVE Replay(_, _, _, _)
Replay(stepList, i, targetStep, acc) ==
    IF i > targetStep THEN acc
    ELSE LET step == stepList[i + 1]
             next == ApplyStepInPlace(acc.registers, acc.memory, step)
         IN  Replay(stepList, i + 1, targetStep,
                    [registers |-> next.registers, memory |-> next.memory,
                     phase |-> step.phase])

\* The playback controls are rendered.
ControlsVisible ==
    /\ cpuState.executionPhase # "idle"
    /\ Len(cpuState.executionSteps) > 0

\* The Reset Simulation button is rendered.
ResetVisible ==
    /\ ~cpuState.isAnimating
    /\ cpuState.executionPhase = "idle"

TimerArmedUntilLast ==
    /\ cpuState.isAnimating
    /\ ~isPaused
    /\ cpuState.currentStep < Len(cpuState.executionSteps) - 1

\* The effect has a timeout pending.
TimerArmed ==
    /\ cpuState.isAnimating
    /\ ~isPaused
    /\ cpuState.currentStep < Len(cpuState.executionSteps)

SimulatorInit ==
    /\ cpuState = InitialCPUState
    /\ isPaused = FALSE
    /\ drops = 0
    /\ appliedLog = <<>>
    /\ instruction = ""
    /\ registers = Regs(0, 0, 0, 0, 0, 0, 0)
    /\ memory = ZeroMemory(MemorySize)
    /\ steps = <<>>
    /\ newRegisters = registers
    /\ newMemory = memory
    /\ applied = 0
    /\ fault = FALSE

\* The products the model can represent: JavaScript multiplies any two
\* numbers, the model's integers have 32 bits, so a drop of MUL BX is left
\* out of the model when AX * BX lies outside them.
ProductLimit == 2147483647

MulRepresentable(regs) ==
    LET ax == RegGet(regs, "AX")
        bx == RegGet(regs, "BX")
    IN  (IsNum(ax) /\ IsNum(bx) /\ bx.v # 0) =>
            Abs(ax.v) <= ProductLimit \div Abs(bx.v)

\* setCPUState of handleInstructionDrop.
DropUpdate(mnemonic) ==
    /\ drops < MaxDrops
    /\ mnemonic = "MUL BX" => MulRepresentable(cpuState.registers)
    /\ cpuState' = [cpuState EXCEPT
           !.currentInstruction = mnemonic,
           !.executionPhase = "fetch",
           !.executionSteps =
               executeInstruction(mnemonic, cpuState.registers,
                                  cpuState.memory),
           !.currentStep = 0,
           !.isAnimating = TRUE]
    /\ drops' = drops + 1
    /\ appliedLog' = <<>>
    /\ UNCHANGED isPaused

handleInstructionDrop(mnemonic) ==
    /\ DropUpdate(mnemonic)
    /\ UNCHANGED engineVars

TimerTickSkips ==
    /\ TimerArmed
    /\ LET step == cpuState.executionSteps[cpuState.currentStep + 1]
           next == ApplyStep(cpuState.registers, cpuState.memory, step)
       IN  cpuState' = [cpuState EXCEPT
               !.registers = next.registers,
               !.memory = next.memory,
               !.executionPhase = step.phase,
               !.currentStep = cpuState.currentStep + 2,
               !.isAnimating =
                   cpuState.currentStep + 1 < Len(cpuState.executionSteps)]
    /\ appliedLog' = Append(appliedLog, cpuState.currentStep)
    /\ UNCHANGED <<isPaused, drops>>
    /\ UNCHANGED engineVars

\* The callback of setTimeout in the effect.
TimerTick ==
    /\ TimerArmed
    /\ LET step == cpuState.executionSteps[cpuState.currentStep + 1]
           next == ApplyStep(cpuState.registers, cpuState.memory, step)
       IN  cpuState' = [cpuState EXCEPT
               !.registers = next.registers,
               !.memory = next.memory,
               !.executionPhase = step.phase,
               !.currentStep = cpuState.currentStep + 1,
               !.isAnimating =
                   cpuState.currentStep + 1 < Len(cpuState.executionSteps)]
    /\ appliedLog' = Append(appliedLog, cpuState.currentStep)
    /\ UNCHANGED <<isPaused, drops>>
    /\ UNCHANGED engineVars

resetSimulation ==
    /\ ResetVisible
    /\ cpuState' = [cpuState EXCEPT
           !.currentInstruction = "null",
           !.executionPhase = "idle",
           !.executionSteps = <<>>,
           !.currentStep = 0 - 1,
           !.isAnimating = FALSE]
    /\ isPaused' = FALSE
    /\ appliedLog' = <<>>
    /\ UNCHANGED drops
    /\ UNCHANGED engineVars

stepForward ==
    /\ ControlsVisible
    /\ cpuState.currentStep < Len(cpuState.executionSteps) - 1
    /\ LET step == cpuState.executionSteps[cpuState.currentStep + 2]
           next == ApplyStep(cpuState.registers, cpuState.memory, step)
       IN  cpuState' = [cpuState EXCEPT
               !.registers = next.registers,
               !.memory = next.memory,
               !.executionPhase = step.phase,
               !.currentStep = cpuState.currentStep + 1,
               !.isAnimating = FALSE]
    /\ appliedLog' = Append(appliedLog, cpuState.currentStep + 1)
    /\ UNCHANGED <<isPaused, drops>>
    /\ UNCHANGED engineVars

stepBackward ==
    /\ ControlsVisible
    /\ cpuState.currentStep > 0
    /\ LET targetStep == cpuState.currentStep - 1
           rebuilt == Replay(cpuState.executionSteps, 0, targetStep,
                             [registers |-> Regs(0, 0, 0, 0, 0, 0, 0),
                              memory |-> SpreadArray(ZeroMemory(MemorySize)),
                              phase |-> "idle"])
       IN  /\ cpuState' = [cpuState EXCEPT
                  !.registers = rebuilt.registers,
                  !.memory = rebuilt.memory,
                  !.executionPhase = rebuilt.phase,
                  !.currentStep = targetStep,
                  !.isAnimating = FALSE]
           /\ appliedLog' = [i \in 1..(targetStep + 1) |-> i - 1]
    /\ UNCHANGED <<isPaused, drops>>
    /\ UNCHANGED engineVars

togglePlayPause ==
    /\ ControlsVisible
    /\ IF ~cpuState.isAnimating /\ ~isPaused
       THEN cpuState' = [cpuState EXCEPT !.isAnimating =
                cpuState.currentStep < Len(cpuState.executionSteps) - 1]
       ELSE UNCHANGED cpuState
    /\ isPaused' = ~isPaused
    /\ UNCHANGED <<drops, appliedLog>>
    /\ UNCHANGED engineVars

Next ==
    \/ \E mnemonic \in DropMnemonics : handleInstructionDrop(mnemonic)
    \/ TimerTick
    \/ resetSimulation
    \/ stepForward
    \/ stepBackward
    \/ togglePlayPause

Spec == SimulatorInit /\ [][Next]_vars

(***************************************************************************)
(* Rewinding: drops, timer ticks and stepBackward, with the arguments of   *)
(* the latest executeInstruction call kept in registers and memory.        *)
(***************************************************************************)
RecordedDrop(mnemonic) ==
    /\ DropUpdate(mnemonic)
    /\ registers' = cpuState.registers
    /\ memory' = cpuState.memory
    /\ UNCHANGED <<instruction, steps, newRegisters, newMemory, applied,
                   fault>>

RewindNext ==
    \/ \E mnemonic \in DropMnemonics : RecordedDrop(mnemonic)
    \/ TimerTick
    \/ stepBackward

RewindSpec == SimulatorInit /\ [][RewindNext]_vars

(***************************************************************************)
(* Uninterrupted playback: the user drops an instruction only when no      *)
(* animation is running and does nothing else; a pending timeout fires.    *)
(***************************************************************************)
DropWhenSettled(mnemonic) ==
    /\ ~cpuState.isAnimating
    /\ handleInstructionDrop(mnemonic)

PlaybackNext ==
    \/ \E mnemonic \in DropMnemonics : DropWhenSettled(mnemonic)
    \/ TimerTick

PlaybackSpec ==
    SimulatorInit /\ [][PlaybackNext]_vars /\ WF_vars(TimerTick)

(***************************************************************************)
(* Properties of the engine.                                               *)
(***************************************************************************)
Called == steps # <<>>

AllApplied == Called /\ applied = Len(steps)

Phases == [i \in 1..Len(steps) |-> steps[i].phase]

\* C1: the phases of the returned sequence are fetch, decode, execute,
\* memory exactly for the seven memory-access mnemonics, writeback; so the
\* length is 5 for those seven and 4 otherwise and no phase occurs twice.
C1_PhaseShape ==
    Called =>
        IF instruction \in {"PUSH AX", "POP BX", "JMP 0x100", "MOV AX, [100]",
                            "MOV [200], BX", "CALL 0x400", "RET"}
        THEN Phases = <<"fetch", "decode", "execute", "memory", "writeback">>
        ELSE Phases = <<"fetch", "decode", "execute", "writeback">>

C1_Witness ==
    /\ instruction = "JMP 0x100"
    /\ Called
    /\ Len(steps) = 5

\* C2: for every mnemonic, jumps, calls and returns included, step 0 has
\* registerChanges exactly {PC: registers.PC + 1} and no memoryChanges.
C2_FetchIncrementsPC ==
    Called =>
        /\ steps[1].phase = "fetch"
        /\ steps[1].present = {"registerChanges"}
        /\ steps[1].registerChanges = [PC |-> Num(registers.PC.v + 1)]
        /\ steps[1].memoryChanges = NoChanges

C2_Witness ==
    /\ instruction = "RET"
    /\ Called
    /\ registers.PC = Num(1)
    /\ steps[1].registerChanges = [PC |-> Num(2)]

\* C3: once the steps have been applied one by one in array order, PC is the
\* value written by the execute step for JMP 0x100, CALL 0x400, RET, a taken
\* JE 0x200 and a taken JNE 0x300, and the pre-instruction PC + 1 for every
\* other mnemonic and for a JE/JNE that is not taken.
C3_FinalPC ==
    AllApplied =>
        newRegisters.PC =
            CASE instruction = "JMP 0x100" -> Num(256)
              [] instruction = "CALL 0x400" -> Num(1024)
              [] instruction = "RET" ->
                    IF registers.SP.v < Len(memory.cells)
                    THEN memory.cells[registers.SP.v + 1] ELSE undefined
              [] instruction = "JE 0x200" /\ registers.FLAGS = Num(1)
                    -> Num(512)
              [] instruction = "JNE 0x300" /\ registers.FLAGS = Num(0)
                    -> Num(768)
              [] OTHER -> Num(registers.PC.v + 1)

C3_Witness ==
    /\ instruction = "JE 0x200"
    /\ registers.FLAGS = Num(1)
    /\ AllApplied
    /\ newRegisters.PC = Num(512)

\* C4: the call of executeInstruction leaves the registers and the memory
\* passed to it as they were.
C4_ArgumentsUnchanged ==
    [][(steps = <<>> /\ steps' # <<>>) =>
           (registers' = registers /\ memory' = memory)]_vars

C4_Witness ==
    /\ instruction = "PUSH AX"
    /\ Called
    /\ steps[3].memoryChanges # NoChanges
    /\ memory.props = NoChanges

\* C6: for a mnemonic that is not one of the 25 of the dispatch table the
\* call returns exactly fetch, decode, execute, writeback, the execute step
\* with description "Executing instruction" and without registerChanges
\* and memoryChanges.
C6_UnknownMnemonic ==
    (Called /\ instruction \notin CatalogueMnemonics) =>
        /\ Phases = <<"fetch", "decode", "execute", "writeback">>
        /\ steps[3].description = "Executing instruction"
        /\ steps[3].present = {}
        /\ steps[3].registerChanges = NoChanges
        /\ steps[3].memoryChanges = NoChanges

C6_Witness ==
    /\ instruction = "mov ax, 42"
    /\ Called
    /\ Len(steps) = 4

\* C7: DIV CX with CX = 0 returns an execute step with description
\* "Error: Division by zero" and registerChanges exactly {FLAGS: 1}, between
\* the decode and the writeback step, and once all steps are applied AX, DX
\* and CX hold their pre-instruction values.
C7_DivisionByZero ==
    (Called /\ instruction = "DIV CX" /\ registers.CX = Num(0)) =>
        /\ Phases = <<"fetch", "decode", "execute", "writeback">>
        /\ steps[3].description = "Error: Division by zero"
        /\ steps[3].registerChanges = [FLAGS |-> Num(1)]
        /\ steps[3].memoryChanges = NoChanges
        /\ AllApplied =>
              /\ newRegisters.AX = registers.AX
              /\ newRegisters.DX = registers.DX
              /\ newRegisters.CX = registers.CX
              /\ newRegisters.FLAGS = Num(1)

C7_Witness ==
    /\ instruction = "DIV CX"
    /\ registers.CX = Num(0)
    /\ registers.AX = Num(10)
    /\ AllApplied
    /\ newRegisters.AX = Num(10)

\* C8: DIV CX with CX not 0 sets AX to floor(AX / CX), DX to AX mod CX
\* (the remainder that goes with the floored quotient) and FLAGS to 1 iff the
\* quotient is 0, for every integer AX and CX, negative ones included.
C8_DivFloorAndMod ==
    (Called /\ instruction = "DIV CX" /\ registers.CX # Num(0)) =>
        LET a == registers.AX.v
            c == registers.CX.v
            quotient == a \div c
        IN  steps[3].registerChanges =
                [AX |-> Num(quotient),
                 DX |-> Num(a - c * quotient),
                 FLAGS |-> IF quotient = 0 THEN Num(1) ELSE Num(0)]

\* C9: PUSH AX sets SP to SP - 2 and writes the pre-instruction AX under the
\* decimal string of SP - 2, and a memory step follows the execute step;
\* with SP = 10 and AX = 99 these are {SP: 8} and {"8": 99}.
C9_Push ==
    (Called /\ instruction = "PUSH AX") =>
        /\ steps[3].phase = "execute"
        /\ steps[3].registerChanges = [SP |-> Num(registers.SP.v - 2)]
        /\ steps[3].memoryChanges =
               (toString(Num(registers.SP.v - 2)) :> registers.AX)
        /\ steps[4].phase = "memory"
        /\ (registers.SP = Num(10) /\ registers.AX = Num(99)) =>
              /\ steps[3].registerChanges = [SP |-> Num(8)]
              /\ steps[3].memoryChanges = (<<"8">> :> Num(99))

C9_Witness ==
    /\ instruction = "PUSH AX"
    /\ Called
    /\ registers.SP = Num(10)
    /\ registers.AX = Num(99)

\* C10: the execute step of JE 0x200 has registerChanges {PC: 0x200} when
\* FLAGS is 1 and an empty one otherwise, that of JNE 0x300 {PC: 0x300} when
\* FLAGS is 0 and an empty one otherwise, and neither instruction changes a
\* register other than PC.
C10_ConditionalJumps ==
    (Called /\ instruction \in {"JE 0x200", "JNE 0x300"}) =>
        /\ steps[3].present = {"registerChanges"}
        /\ instruction = "JE 0x200" =>
              steps[3].registerChanges =
                  IF registers.FLAGS = Num(1) THEN [PC |-> Num(512)]
                  ELSE NoChanges
        /\ instruction = "JNE 0x300" =>
              steps[3].registerChanges =
                  IF registers.FLAGS = Num(0) THEN [PC |-> Num(768)]
                  ELSE NoChanges
        /\ \A r \in RegisterNames \ {"PC"} : newRegisters[r] = registers[r]

C10_Witness ==
    /\ instruction = "JNE 0x300"
    /\ registers.FLAGS = Num(2)
    /\ AllApplied
    /\ steps[3].registerChanges = NoChanges

\* C11: the execute step of CALL 0x400 sets SP to SP - 2 and PC to 0x400
\* and writes under SP - 2 the PC that was passed to executeInstruction, not
\* the PC + 1 of the fetch step of the same sequence.
C11_CallStoresPassedPC ==
    (Called /\ instruction = "CALL 0x400") =>
        /\ steps[3].phase = "execute"
        /\ steps[3].registerChanges =
               [SP |-> Num(registers.SP.v - 2), PC |-> Num(1024)]
        /\ steps[3].memoryChanges =
               (toString(Num(registers.SP.v - 2)) :> registers.PC)
        /\ \A k \in DOMAIN steps[3].memoryChanges :
               steps[3].memoryChanges[k] # steps[1].registerChanges.PC

C11_Witness ==
    /\ instruction = "CALL 0x400"
    /\ Called
    /\ registers.PC = Num(1)
    /\ registers.SP = Num(10)
    /\ steps[3].memoryChanges = (<<"8">> :> Num(1))

\* C12: the decode, memory and writeback steps carry no registerChanges and
\* no memoryChanges, the memory step comes right after the execute step, and
\* applying one of these steps leaves the registers and the memory as they
\* were.
C12_NarrationalSteps ==
    [][(applied' = applied + 1
        /\ steps[applied'].phase \in {"decode", "memory", "writeback"}) =>
           /\ steps[applied'].present = {}
           /\ steps[applied'].registerChanges = NoChanges
           /\ steps[applied'].memoryChanges = NoChanges
           /\ steps[applied'].phase = "memory" =>
                  steps[applied].phase = "execute"
           /\ newRegisters' = newRegisters
           /\ newMemory' = newMemory]_vars

C13_WrittenRegisters ==
    CASE instruction \in {"MOV AX, 42", "MOV AX, [100]", "IN AX, 60h"}
             -> {"AX"}
      [] instruction \in {"ADD AX, BX", "MUL BX", "AND AX, 0xFF", "NOT AX"}
             -> {"AX", "FLAGS"}
      [] instruction = "MOV BX, AX" -> {"BX"}
      [] instruction \in {"OR BX, CX", "DEC BX"} -> {"BX", "FLAGS"}
      [] instruction \in {"SUB CX, DX", "INC CX"} -> {"CX", "FLAGS"}
      [] instruction = "DIV CX" -> {"AX", "DX", "FLAGS"}
      [] instruction = "XOR DX, DX" -> {"DX", "FLAGS"}
      [] instruction \in {"PUSH AX", "CALL 0x400", "RET"} -> {"SP"}
      [] instruction = "POP BX" -> {"BX", "SP"}
      [] instruction = "XCHG AX, BX" -> {"AX", "BX"}
      [] instruction = "CMP AX, BX" -> {"FLAGS"}
      [] OTHER -> {}

C13_WrittenAddresses ==
    CASE instruction \in {"PUSH AX", "CALL 0x400"} -> {registers.SP.v - 2}
      [] instruction = "MOV [200], BX" -> {200}
      [] OTHER -> {}

C16_FailsFast ==
    (instruction # "" /\ ~(RegisterNames \subseteq DOMAIN registers)) =>
        /\ fault
        /\ steps = <<>>

(***************************************************************************)
(* Properties of the simulator component.                                  *)
(***************************************************************************)
RunComplete ==
    /\ Len(cpuState.executionSteps) > 0
    /\ cpuState.currentStep = Len(cpuState.executionSteps)

\* C14: after a drop the steps of the instruction are applied one at a time
\* in array order with none skipped: whenever steps[k] is applied, each of
\* steps[0..k-1] has been applied before it.
C14_AppliedInOrder ==
    \A i \in 1..Len(appliedLog) :
        \A k \in 0..(appliedLog[i] - 1) :
            \E j \in 1..(i - 1) : appliedLog[j] = k

\* C15: the memory of the component stays a sequence of 64 integer cells.
C15_MemoryStaysFixed ==
    /\ Len(cpuState.memory.cells) = MemorySize
    /\ \A i \in 1..Len(cpuState.memory.cells) :
           IsNum(cpuState.memory.cells[i])

\* C17: in every reachable state of the component each required register
\* holds an integer; no register becomes undefined.
C17_RegistersAreIntegers ==
    \A r \in RegisterNames :
        /\ r \in DOMAIN cpuState.registers
        /\ IsNum(cpuState.registers[r])

\* C18: after the timer has applied the last step of an instruction the
\* phase returns to idle without a user action: once every step is applied
\* and no timer is pending, executionPhase is idle.
C18_ReturnsToIdle ==
    (RunComplete /\ ~TimerArmed) => cpuState.executionPhase = "idle"

\* C19: FLAGS is a single bit: every value a step writes to FLAGS is 0 or 1,
\* FLAGS is 0 or 1 in every reachable state, and exactly one of JE 0x200 and
\* JNE 0x300 would take its jump.
C19_FlagsIsOneBit ==
    /\ cpuState.registers.FLAGS \in {Num(0), Num(1)}
    /\ \A i \in 1..Len(cpuState.executionSteps) :
           "FLAGS" \in DOMAIN cpuState.executionSteps[i].registerChanges =>
               cpuState.executionSteps[i].registerChanges.FLAGS
                   \in {Num(0), Num(1)}
    /\ ("PC" \in DOMAIN ExecJe(cpuState.registers).registerChanges)
           # ("PC" \in DOMAIN ExecJne(cpuState.registers).registerChanges)

C19_Witness ==
    /\ cpuState.currentInstruction = "DEC BX"
    /\ RunComplete
    /\ cpuState.registers.BX = Num(0 - 2)
    /\ cpuState.registers.FLAGS = Num(0)

\* C20: for ADD AX, BX; SUB CX, DX; MUL BX; AND AX, 0xFF; OR BX, CX;
\* XOR DX, DX; NOT AX; INC CX; DEC BX the execute step writes FLAGS = 1
\* exactly when the value it writes to the destination register is 0, both
\* computed from the pre-instruction registers.
C20_Destination ==
    CASE instruction \in {"ADD AX, BX", "MUL BX", "AND AX, 0xFF", "NOT AX"}
             -> "AX"
      [] instruction \in {"OR BX, CX", "DEC BX"} -> "BX"
      [] instruction \in {"SUB CX, DX", "INC CX"} -> "CX"
      [] OTHER -> "DX"

C20_ZeroFlagFollowsResult ==
    (Called /\ instruction \in
        {"ADD AX, BX", "SUB CX, DX", "MUL BX", "AND AX, 0xFF", "OR BX, CX",
         "XOR DX, DX", "NOT AX", "INC CX", "DEC BX"}) =>
        LET rc == steps[3].registerChanges
            ax == registers.AX.v
            bx == registers.BX.v
            cx == registers.CX.v
            dx == registers.DX.v
        IN  /\ DOMAIN rc = {C20_Destination, "FLAGS"}
            /\ rc.FLAGS = IF rc[C20_Destination] = Num(0) THEN Num(1)
                          ELSE Num(0)
            /\ instruction = "ADD AX, BX" => rc.AX = Num(ax + bx)
            /\ instruction = "SUB CX, DX" => rc.CX = Num(cx - dx)
            /\ instruction = "MUL BX" => rc.AX = Num(ax * bx)
            /\ instruction = "AND AX, 0xFF" => rc.AX = Num(ax % 256)
            /\ instruction = "OR BX, CX" =>
                   (rc.BX = Num(0)) = (bx = 0 /\ cx = 0)
            /\ instruction = "XOR DX, DX" => rc.DX = Num(0)
            /\ instruction = "NOT AX" => rc.AX = Num(65535 - (ax % 65536))
            /\ instruction = "INC CX" => rc.CX = Num(cx + 1)
            /\ instruction = "DEC BX" => rc.BX = Num(bx - 1)

C20_Witness ==
    /\ instruction = "INC CX"
    /\ Called
    /\ registers.CX = Num(0 - 1)
    /\ steps[3].registerChanges = [CX |-> Num(0), FLAGS |-> Num(1)]

\* C21: ADD AX, BX; SUB CX, DX; MUL BX; INC CX and DEC BX write the exact
\* integer result to the destination, with no masking to 16 bits, also when
\* the result is negative or exceeds 65535.
C21_NoOverflowMasking ==
    (Called /\ instruction \in
        {"ADD AX, BX", "SUB CX, DX", "MUL BX", "INC CX", "DEC BX"}) =>
        LET rc == steps[3].registerChanges
            exact ==
                CASE instruction = "ADD AX, BX"
                         -> registers.AX.v + registers.BX.v
                  [] instruction = "SUB CX, DX"
                         -> registers.CX.v - registers.DX.v
                  [] instruction = "MUL BX"
                         -> registers.AX.v * registers.BX.v
                  [] instruction = "INC CX" -> registers.CX.v + 1
                  [] OTHER -> registers.BX.v - 1
        IN  rc[C20_Destination] = Num(exact)

C21_Witness ==
    \/ /\ instruction = "DEC BX"
       /\ Called
       /\ registers.BX = Num(0)
       /\ steps[3].registerChanges.BX = Num(0 - 1)
    \/ /\ instruction = "INC CX"
       /\ Called
       /\ registers.CX = Num(65535)
       /\ steps[3].registerChanges.CX = Num(65536)

\* C22: NOT AX writes the 16-bit complement: the new AX lies in 0..65535 and
\* is 65535 - (AX mod 65536), FLAGS is 1 iff it is 0, and for AX in 0..65535
\* a second NOT AX on the resulting state restores AX.
C22_SixteenBitComplement ==
    (AllApplied /\ instruction = "NOT AX") =>
        LET rc == steps[3].registerChanges
            ax == registers.AX.v
            twice == RunInstruction("NOT AX", newRegisters, newMemory)
        IN  /\ IsNum(rc.AX)
            /\ rc.AX.v \in 0..65535
            /\ rc.AX.v = 65535 - (ax % 65536)
            /\ rc.FLAGS = IF rc.AX.v = 0 THEN Num(1) ELSE Num(0)
            /\ newRegisters.AX = rc.AX
            /\ ax \in 0..65535 => twice.registers.AX = registers.AX

C22_Witness ==
    /\ instruction = "NOT AX"
    /\ AllApplied
    /\ registers.AX = Num(65535)
    /\ newRegisters.AX = Num(0)
    /\ newRegisters.FLAGS = Num(1)
    /\ RunInstruction("NOT AX", newRegisters, newMemory).registers.AX
           = Num(65535)

\* C24: with 2 <= SP < memory length, the steps of CALL 0x400 applied in
\* full and then the steps of RET computed from the resulting state restore
\* SP and leave PC equal to the PC passed to CALL, not that PC + 1.
C24_CallThenRet ==
    (/\ AllApplied
     /\ instruction = "CALL 0x400"
     /\ registers.SP.v >= 2
     /\ registers.SP.v < Len(memory.cells)) =>
        LET after == RunInstruction("RET", newRegisters, newMemory)
        IN  /\ after.registers.SP = registers.SP
            /\ after.registers.PC = registers.PC

C24_Witness ==
    /\ instruction = "CALL 0x400"
    /\ AllApplied
    /\ registers.SP = Num(10)
    /\ registers.PC = Num(1)
    /\ newRegisters.PC = Num(1024)
    /\ RunInstruction("RET", newRegisters, newMemory).registers.PC = Num(1)

\* C25: DIV CX with CX not 0 writes a quotient and a remainder that satisfy
\* newAX * CX + newDX = oldAX for every integer AX and CX.
C25_DivisionIdentity ==
    (Called /\ instruction = "DIV CX" /\ registers.CX # Num(0)) =>
        LET rc == steps[3].registerChanges
        IN  rc.AX.v * registers.CX.v + rc.DX.v = registers.AX.v

\* C26: the steps of CMP AX, BX applied in full and then the steps of
\* JE 0x200 computed from the resulting state end with PC = 0x200 iff
\* AX = BX at the compare, otherwise with the pre-compare PC + 2; AX and BX
\* are unchanged.
C26_CompareThenJump ==
    (AllApplied /\ instruction = "CMP AX, BX") =>
        LET after == RunInstruction("JE 0x200", newRegisters,
                                    newMemory).registers
        IN  /\ (after.PC = Num(512)) = (registers.AX = registers.BX)
            /\ registers.AX # registers.BX =>
                   after.PC = Num(registers.PC.v + 2)
            /\ after.AX = registers.AX
            /\ after.BX = registers.BX

C26_Witness ==
    /\ instruction = "CMP AX, BX"
    /\ AllApplied
    /\ registers.AX = Num(1)
    /\ registers.BX = Num(1)
    /\ RunInstruction("JE 0x200", newRegisters, newMemory).registers.PC
           = Num(512)

\* Every step of the current instruction has been applied since the drop.
EveryStepApplied ==
    \A k \in 0..(Len(cpuState.executionSteps) - 1) :
        \E j \in 1..Len(appliedLog) : appliedLog[j] = k

\* C23: from every reachable state of the component, the steps of PUSH AX
\* applied in full and then the steps of POP BX computed from the resulting
\* state leave BX equal to the AX of the push and SP equal to its value
\* before the push.
C23_PushThenPop ==
    LET pushed == RunInstruction("PUSH AX", cpuState.registers,
                                 cpuState.memory)
        popped == RunInstruction("POP BX", pushed.registers, pushed.memory)
    IN  /\ popped.registers.BX = cpuState.registers.AX
        /\ popped.registers.SP = cpuState.registers.SP

\* C27: stepBackward leaves registers and memory equal to the state the
\* component had when the current instruction was dropped with
\* steps[0..currentStep-1] of it applied, so the effects of earlier
\* instructions are kept.
C27_StepBackwardKeepsEarlier ==
    [][(drops' = drops /\ cpuState'.currentStep = cpuState.currentStep - 1)
       => LET expected ==
                  RunSteps(SubSeq(cpuState.executionSteps, 1,
                                  cpuState.currentStep),
                           registers, memory)
          IN  /\ cpuState'.registers = expected.registers
              /\ cpuState'.memory = expected.memory]_vars

\* C28: an instruction is dropped, and its step list computed, only in a
\* state in which every step of the previously dropped instruction has been
\* applied.
C28_DropOnlyWhenApplied ==
    [][drops' = drops + 1 => EveryStepApplied]_vars

\* C29: after a drop, with no pause and no other user action, the component
\* eventually reaches currentStep = executionSteps.length with isAnimating
\* false, each step applied exactly once in order, and no timer pending.
C29_PlaybackCompletes ==
    cpuState.isAnimating ~>
        (/\ RunComplete
         /\ ~cpuState.isAnimating
         /\ appliedLog = [i \in 1..Len(cpuState.executionSteps) |-> i - 1]
         /\ ~TimerArmed)

C29_Witness ==
    /\ RunComplete
    /\ ~cpuState.isAnimating
    /\ cpuState.currentInstruction = "PUSH AX"
    /\ appliedLog = <<0, 1, 2, 3, 4>>
    /\ ~TimerArmed

\* C30: in every reachable state -1 <= currentStep <= executionSteps.length,
\* currentStep is -1 only when executionSteps is empty, and the indices the
\* timer, stepForward and stepBackward read lie in
\* 0..executionSteps.length - 1.
C30_StepIndexInRange ==
    LET length == Len(cpuState.executionSteps)
        current == cpuState.currentStep
    IN  /\ current >= 0 - 1
        /\ current <= length
        /\ current = 0 - 1 => length = 0
        /\ TimerArmed => (0 <= current /\ current < length)
        /\ current < length - 1 =>
               (0 <= current + 1 /\ current + 1 < length)
        /\ current > 0 => \A i \in 0..(current - 1) : i < length

C30_Witness ==
    /\ RunComplete
    /\ isPaused
    /\ drops = 2

====
